---- MODULE Spec2Model ----
(***************************************************************************)
(* The habit domain engine of hablits: the snapshot (AppState), the        *)
(* reducer appReducer of the app state context, and the Today / Week       *)
(* screen handlers that dispatch to it.                                    *)
(*                                                                         *)
(* A JavaScript object is a function whose DOMAIN is the set of keys that  *)
(* are present; an array is a sequence.  A top-level snapshot field that   *)
(* is undefined (a payload of an older version) is named in the snapshot's *)
(* "missing" set and holds its empty placeholder.                          *)
(***************************************************************************)
EXTENDS Integers, Sequences, FiniteSets, TLC

\* state: the snapshot held by useReducer; queue: the dispatches the running
\* handler has still to make; crashed: the reducer threw; last: the last
\* event.  storage: the item AsyncStorage holds under STORAGE_KEY; io: the
\* position of AppProvider's loadState and the setItem calls in flight.
VARIABLES state, queue, crashed, last, storage, io

vars == <<state, queue, crashed, last, storage, io>>

--------------------------------------------------------------------------
(* Bounds and input domains *)

\* AsyncStorage.getItem(STORAGE_KEY): null, or the text that was written.
NoItem == [exists |-> FALSE]
Item(json) == [exists |-> TRUE, json |-> json]

\* loadState has finished and no setItem is in flight.
Idle == [load |-> "done", value |-> NoItem, writes |-> <<>>]

HabitIds == {"h1", "h2"}
StepIds == {"s1", "s2"}
Days == {"d1", "d2"}
Today == "d1"
NewIdentityIds == {"i1", "i2", "i3"}
MaxIdentities == 3

--------------------------------------------------------------------------
(* JavaScript helpers *)

EmptyObj == [k \in {} |-> {}]

\* obj[k] || dflt
GetOr(obj, k, dflt) == IF k \in DOMAIN obj THEN obj[k] ELSE dflt

\* { ...obj, [k]: v }
Put(obj, k, v) == [x \in (DOMAIN obj) \cup {k} |-> IF x = k THEN v ELSE obj[x]]

\* delete obj[k]
Del(obj, k) == [x \in (DOMAIN obj) \ {k} |-> obj[x]]

\* arr.includes(x)
Includes(arr, x) == \E i \in 1..Len(arr) : arr[i] = x

\* arr.filter((id) => id !== x)
Without(arr, x) == SelectSeq(arr, LAMBDA e : e # x)

\* the set of elements of an array
Elems(arr) == {arr[i] : i \in 1..Len(arr)}

--------------------------------------------------------------------------
(* The snapshot *)

\* Snapshot fields a stored or imported payload may lack.
Fields == {"habits", "identities", "logs", "marks", "dayPlanTimes",
           "dayPlanSchedules", "notes", "routineStepLogs", "activeFasts",
           "hapticsEnabled"}

General == [id |-> "general", name |-> "General", color |-> "#3ddc97"]

EmptyMarks == [skip |-> <<>>, fail |-> <<>>]

defaultState ==
  [ missing |-> {},
    theme |-> "light",
    sfxEnabled |-> TRUE,
    hapticsEnabled |-> TRUE,
    notificationsEnabled |-> FALSE,
    notificationTime |-> [hour |-> 9, minute |-> 0],
    identities |-> <<General>>,
    currentIdentityFilter |-> "all",
    habits |-> <<>>,
    logs |-> EmptyObj,
    marks |-> EmptyObj,
    dayPlanTimes |-> EmptyObj,
    dayPlanSchedules |-> EmptyObj,
    notes |-> EmptyObj,
    routineStepLogs |-> EmptyObj,
    hasCompletedOnboarding |-> FALSE,
    petSpecies |-> "blob",
    petHat |-> "none",
    activeFasts |-> EmptyObj ]

\* state.f is undefined
Undef(s, f) == f \in s.missing

\* { ...s, f1, f2, ... }: the named fields are defined in the result
Defined(s, fs) == [s EXCEPT !.missing = @ \ fs]

\* habits.find(h => h.id === id) exists
HasHabit(s, id) == \E i \in 1..Len(s.habits) : s.habits[i].id = id

FindHabit(s, id) ==
  s.habits[CHOOSE i \in 1..Len(s.habits) :
              /\ s.habits[i].id = id
              /\ \A j \in 1..(i - 1) : s.habits[j].id # id]

\* state.logs[d]?.includes(h) || false, and the two marks
IsDone(s, h, d) == d \in DOMAIN s.logs /\ Includes(s.logs[d], h)
IsSkipped(s, h, d) == d \in DOMAIN s.marks /\ Includes(s.marks[d].skip, h)
IsFailed(s, h, d) == d \in DOMAIN s.marks /\ Includes(s.marks[d].fail, h)

\* state.routineStepLogs[d]?.[h] || []
CompletedSteps(s, h, d) ==
  IF d \in DOMAIN s.routineStepLogs
  THEN GetOr(s.routineStepLogs[d], h, <<>>)
  ELSE <<>>

--------------------------------------------------------------------------
(* The reducer, one operator per case of appReducer *)

\* LOAD_STATE that always starts with empty routineStepLogs.
ReduceLoadStateResetsStepLogs(s, payload) ==
  [payload EXCEPT
     !.missing = @ \ {"routineStepLogs", "activeFasts", "hapticsEnabled"},
     !.routineStepLogs = EmptyObj,
     !.hapticsEnabled = IF Undef(payload, "hapticsEnabled") THEN TRUE ELSE @]

ReduceLoadState(s, payload) ==
  [payload EXCEPT
     !.missing = @ \ {"routineStepLogs", "activeFasts", "hapticsEnabled"},
     !.hapticsEnabled = IF Undef(payload, "hapticsEnabled") THEN TRUE ELSE @]

\* newId is the value of generateId(), a string made from Math.random() and
\* Date.now().
ReduceAddHabit(s, payload, newId) ==
  [s EXCEPT !.habits =
     Append(@, [payload EXCEPT !.id = newId, !.order = Len(s.habits) + 1])]

ReduceUpdateHabit(s, payload) ==
  [s EXCEPT !.habits =
     [i \in 1..Len(@) |-> IF @[i].id = payload.id THEN payload ELSE @[i]]]

ReduceReorderHabits(s, payload) ==
  [s EXCEPT !.habits =
     [i \in 1..Len(payload) |-> [payload[i] EXCEPT !.order = i]]]

ReduceDeleteHabit(s, habitId) ==
  [s EXCEPT
     !.habits = SelectSeq(@, LAMBDA h : h.id # habitId),
     !.logs = [d \in DOMAIN @ |-> Without(@[d], habitId)],
     !.marks = [d \in DOMAIN @ |->
                  [skip |-> Without(@[d].skip, habitId),
                   fail |-> Without(@[d].fail, habitId)]],
     !.notes = [d \in DOMAIN @ |-> Del(@[d], habitId)],
     !.dayPlanTimes = Del(@, habitId),
     !.dayPlanSchedules = Del(@, habitId),
     !.missing = @ \ {"dayPlanTimes", "dayPlanSchedules"}]

\* TOGGLE_HABIT that moves a completed habit to skipped instead of clearing it.
ReduceToggleHabitDoneToSkipped(s, habitId, date) ==
  LET dayLogs == GetOr(s.logs, date, <<>>)
      dayMarks == GetOr(s.marks, date, EmptyMarks)
  IN  IF Includes(dayLogs, habitId)
      THEN Defined([s EXCEPT
                      !.logs = Put(@, date, Without(dayLogs, habitId)),
                      !.marks = Put(@, date,
                                    [skip |-> Append(dayMarks.skip, habitId),
                                     fail |-> dayMarks.fail])],
                   {"logs", "marks"})
      ELSE Defined([s EXCEPT
                      !.logs = Put(@, date, Append(dayLogs, habitId)),
                      !.marks = Put(@, date,
                                    [skip |-> Without(dayMarks.skip, habitId),
                                     fail |-> Without(dayMarks.fail, habitId)])],
                   {"logs", "marks"})

ReduceToggleHabit(s, habitId, date) ==
  LET dayLogs == GetOr(s.logs, date, <<>>)
      logs == Put(s.logs, date,
                  IF Includes(dayLogs, habitId)
                  THEN Without(dayLogs, habitId)
                  ELSE Append(dayLogs, habitId))
      marks == IF date \in DOMAIN s.marks
               THEN Put(s.marks, date,
                        [skip |-> Without(s.marks[date].skip, habitId),
                         fail |-> Without(s.marks[date].fail, habitId)])
               ELSE s.marks
  IN  Defined([s EXCEPT !.logs = logs, !.marks = marks], {"logs", "marks"})

\* SKIP_HABIT that forgets to remove the habit from the day's completed list.
ReduceSkipHabitKeepsDone(s, habitId, date) ==
  LET dayMarks == GetOr(s.marks, date, EmptyMarks)
      marks == Put(s.marks, date,
                   [skip |-> Append(Without(dayMarks.skip, habitId), habitId),
                    fail |-> Without(dayMarks.fail, habitId)])
  IN  Defined([s EXCEPT !.logs = Put(@, date, GetOr(@, date, <<>>)),
                        !.marks = marks],
              {"logs", "marks"})

\* SKIP_HABIT that appends the habit without filtering it out first.
ReduceSkipHabitAppendsAgain(s, habitId, date) ==
  LET logs == Put(s.logs, date, Without(GetOr(s.logs, date, <<>>), habitId))
      dayMarks == GetOr(s.marks, date, EmptyMarks)
      marks == Put(s.marks, date,
                   [skip |-> Append(dayMarks.skip, habitId),
                    fail |-> Without(dayMarks.fail, habitId)])
  IN  Defined([s EXCEPT !.logs = logs, !.marks = marks], {"logs", "marks"})

ReduceSkipHabit(s, habitId, date) ==
  LET logs == Put(s.logs, date, Without(GetOr(s.logs, date, <<>>), habitId))
      dayMarks == GetOr(s.marks, date, EmptyMarks)
      marks == Put(s.marks, date,
                   [skip |-> Append(Without(dayMarks.skip, habitId), habitId),
                    fail |-> Without(dayMarks.fail, habitId)])
  IN  Defined([s EXCEPT !.logs = logs, !.marks = marks], {"logs", "marks"})

\* FAIL_HABIT that forgets to remove the habit from the day's skipped list.
ReduceFailHabitKeepsSkip(s, habitId, date) ==
  LET logs == Put(s.logs, date, Without(GetOr(s.logs, date, <<>>), habitId))
      dayMarks == GetOr(s.marks, date, EmptyMarks)
      marks == Put(s.marks, date,
                   [skip |-> dayMarks.skip,
                    fail |-> Append(Without(dayMarks.fail, habitId), habitId)])
  IN  Defined([s EXCEPT !.logs = logs, !.marks = marks], {"logs", "marks"})

ReduceFailHabit(s, habitId, date) ==
  LET logs == Put(s.logs, date, Without(GetOr(s.logs, date, <<>>), habitId))
      dayMarks == GetOr(s.marks, date, EmptyMarks)
      marks == Put(s.marks, date,
                   [skip |-> Without(dayMarks.skip, habitId),
                    fail |-> Append(Without(dayMarks.fail, habitId), habitId)])
  IN  Defined([s EXCEPT !.logs = logs, !.marks = marks], {"logs", "marks"})

ReduceClearDay(s, date) ==
  Defined([s EXCEPT !.logs = Put(@, date, <<>>),
                    !.marks = Put(@, date, EmptyMarks)],
          {"logs", "marks"})

ReduceAddIdentity(s, payload, newId) ==
  [s EXCEPT !.identities = Append(@, [payload EXCEPT !.id = newId])]

ReduceUpdateIdentity(s, payload) ==
  [s EXCEPT !.identities =
     [i \in 1..Len(@) |-> IF @[i].id = payload.id THEN payload ELSE @[i]]]

\* DELETE_IDENTITY that leaves the identity filter pointing at the deleted id.
ReduceDeleteIdentityKeepsFilter(s, id) ==
  IF id = "general" THEN s
  ELSE [s EXCEPT
          !.habits = [i \in 1..Len(@) |->
                        IF @[i].identityId = id
                        THEN [@[i] EXCEPT !.identityId = "general"]
                        ELSE @[i]],
          !.identities = SelectSeq(@, LAMBDA i : i.id # id)]

\* DELETE_IDENTITY without the guard for the reserved identity.
ReduceDeleteIdentityNoGuard(s, id) ==
  [s EXCEPT
     !.habits = [i \in 1..Len(@) |->
                   IF @[i].identityId = id
                   THEN [@[i] EXCEPT !.identityId = "general"]
                   ELSE @[i]],
     !.identities = SelectSeq(@, LAMBDA i : i.id # id),
     !.currentIdentityFilter = IF @ = id THEN "all" ELSE @]

ReduceDeleteIdentity(s, id) ==
  IF id = "general" THEN s
  ELSE [s EXCEPT
          !.habits = [i \in 1..Len(@) |->
                        IF @[i].identityId = id
                        THEN [@[i] EXCEPT !.identityId = "general"]
                        ELSE @[i]],
          !.identities = SelectSeq(@, LAMBDA i : i.id # id),
          !.currentIdentityFilter = IF @ = id THEN "all" ELSE @]

ReduceSetIdentityFilter(s, id) == [s EXCEPT !.currentIdentityFilter = id]

\* time is a string or null
ReduceSetDayPlanTime(s, habitId, time) ==
  Defined([s EXCEPT !.dayPlanTimes =
             IF time # "null" THEN Put(@, habitId, time) ELSE Del(@, habitId)],
          {"dayPlanTimes"})

\* schedule is a HabitSchedule or null
ReduceSetDayPlanSchedule(s, habitId, schedule) ==
  Defined([s EXCEPT !.dayPlanSchedules =
             IF schedule.time # "null" THEN Put(@, habitId, schedule)
             ELSE Del(@, habitId)],
          {"dayPlanSchedules"})

ReduceSetNote(s, habitId, date, note) ==
  Defined([s EXCEPT !.notes =
             Put(@, date, Put(GetOr(@, date, EmptyObj), habitId, note))],
          {"notes"})

ReduceDeleteNote(s, habitId, date) ==
  Defined([s EXCEPT !.notes =
             IF date \in DOMAIN @ THEN Put(@, date, Del(@[date], habitId))
             ELSE @],
          {"notes"})

ReduceToggleRoutineStep(s, habitId, stepId, date) ==
  LET dayMap == GetOr(s.routineStepLogs, date, EmptyObj)
      habitSteps == GetOr(dayMap, habitId, <<>>)
  IN  Defined([s EXCEPT !.routineStepLogs =
                 Put(@, date,
                     Put(dayMap, habitId,
                         IF Includes(habitSteps, stepId)
                         THEN Without(habitSteps, stepId)
                         ELSE Append(habitSteps, stepId)))],
              {"routineStepLogs"})

\* times in hours: targetTime = startTime + duration * 60 * 60 * 1000 ms
ReduceStartFast(s, habitId, duration, startTime) ==
  Defined([s EXCEPT !.activeFasts =
             Put(@, habitId, [habitId |-> habitId, startTime |-> startTime,
                              duration |-> duration,
                              targetTime |-> startTime + duration])],
          {"activeFasts"})

\* UPDATE_FAST_START_TIME that moves the start time and keeps the old target.
ReduceUpdateFastStartTimeKeepsTarget(s, habitId, startTime) ==
  IF habitId \notin DOMAIN s.activeFasts THEN s
  ELSE [s EXCEPT !.activeFasts =
          Put(@, habitId, [s.activeFasts[habitId] EXCEPT
                             !.startTime = startTime])]

ReduceUpdateFastStartTime(s, habitId, startTime) ==
  IF habitId \notin DOMAIN s.activeFasts THEN s
  ELSE LET existingFast == s.activeFasts[habitId]
       IN  [s EXCEPT !.activeFasts =
              Put(@, habitId,
                  [existingFast EXCEPT
                     !.startTime = startTime,
                     !.targetTime = startTime + existingFast.duration])]

ReduceEndFast(s, habitId) == [s EXCEPT !.activeFasts = Del(@, habitId)]

--------------------------------------------------------------------------
(* Actions: the members of the Action union *)

LoadState(payload) == [type |-> "LOAD_STATE", payload |-> payload]
AddHabitAction(payload, newId) ==
  [type |-> "ADD_HABIT", payload |-> payload, newId |-> newId]
UpdateHabitAction(payload) == [type |-> "UPDATE_HABIT", payload |-> payload]
DeleteHabitAction(h) == [type |-> "DELETE_HABIT", habitId |-> h]
ReorderHabitsAction(payload) ==
  [type |-> "REORDER_HABITS", payload |-> payload]
ToggleHabitAction(h, d) == [type |-> "TOGGLE_HABIT", habitId |-> h, date |-> d]
SkipHabitAction(h, d) == [type |-> "SKIP_HABIT", habitId |-> h, date |-> d]
FailHabitAction(h, d) == [type |-> "FAIL_HABIT", habitId |-> h, date |-> d]
ClearDayAction(d) == [type |-> "CLEAR_DAY", date |-> d]
AddIdentityAction(payload, newId) ==
  [type |-> "ADD_IDENTITY", payload |-> payload, newId |-> newId]
UpdateIdentityAction(payload) ==
  [type |-> "UPDATE_IDENTITY", payload |-> payload]
DeleteIdentityAction(i) == [type |-> "DELETE_IDENTITY", id |-> i]
SetIdentityFilterAction(i) == [type |-> "SET_IDENTITY_FILTER", id |-> i]
SetDayPlanTimeAction(h, t) ==
  [type |-> "SET_DAY_PLAN_TIME", habitId |-> h, time |-> t]
SetDayPlanScheduleAction(h, sch) ==
  [type |-> "SET_DAY_PLAN_SCHEDULE", habitId |-> h, schedule |-> sch]
SetFlagAction(t, v) == [type |-> t, value |-> v]
SetNoteAction(h, d, n) ==
  [type |-> "SET_NOTE", habitId |-> h, date |-> d, note |-> n]
DeleteNoteAction(h, d) == [type |-> "DELETE_NOTE", habitId |-> h, date |-> d]
ToggleRoutineStepAction(h, st, d) ==
  [type |-> "TOGGLE_ROUTINE_STEP", habitId |-> h, stepId |-> st, date |-> d]
StartFastAction(h, dur, t) ==
  [type |-> "START_FAST", habitId |-> h, duration |-> dur, startTime |-> t]
UpdateFastStartTimeAction(h, t) ==
  [type |-> "UPDATE_FAST_START_TIME", habitId |-> h, startTime |-> t]
EndFastAction(h) == [type |-> "END_FAST", habitId |-> h]
UnknownAction == [type |-> "UNKNOWN"]

\* The reducer reads a property of, or iterates over, an undefined field:
\* a TypeError.
Throws(s, a) ==
  CASE a.type \in {"ADD_HABIT", "UPDATE_HABIT"} -> Undef(s, "habits")
    [] a.type = "DELETE_HABIT" ->
         \E f \in {"habits", "logs", "marks", "notes"} : Undef(s, f)
    [] a.type \in {"ADD_IDENTITY", "UPDATE_IDENTITY"} -> Undef(s, "identities")
    [] a.type = "DELETE_IDENTITY" ->
         a.id # "general" /\ (Undef(s, "habits") \/ Undef(s, "identities"))
    [] a.type \in {"UPDATE_FAST_START_TIME", "END_FAST"} ->
         Undef(s, "activeFasts")
    [] OTHER -> FALSE

appReducer(s, a) ==
  CASE a.type = "LOAD_STATE" -> ReduceLoadState(s, a.payload)
    [] a.type = "ADD_HABIT" -> ReduceAddHabit(s, a.payload, a.newId)
    [] a.type = "UPDATE_HABIT" -> ReduceUpdateHabit(s, a.payload)
    [] a.type = "REORDER_HABITS" -> ReduceReorderHabits(s, a.payload)
    [] a.type = "DELETE_HABIT" -> ReduceDeleteHabit(s, a.habitId)
    [] a.type = "TOGGLE_HABIT" -> ReduceToggleHabit(s, a.habitId, a.date)
    [] a.type = "SKIP_HABIT" -> ReduceSkipHabit(s, a.habitId, a.date)
    [] a.type = "FAIL_HABIT" -> ReduceFailHabit(s, a.habitId, a.date)
    [] a.type = "CLEAR_DAY" -> ReduceClearDay(s, a.date)
    [] a.type = "ADD_IDENTITY" -> ReduceAddIdentity(s, a.payload, a.newId)
    [] a.type = "UPDATE_IDENTITY" -> ReduceUpdateIdentity(s, a.payload)
    [] a.type = "DELETE_IDENTITY" -> ReduceDeleteIdentity(s, a.id)
    [] a.type = "SET_IDENTITY_FILTER" -> ReduceSetIdentityFilter(s, a.id)
    [] a.type = "SET_DAY_PLAN_TIME" -> ReduceSetDayPlanTime(s, a.habitId, a.time)
    [] a.type = "SET_DAY_PLAN_SCHEDULE" ->
         ReduceSetDayPlanSchedule(s, a.habitId, a.schedule)
    [] a.type = "SET_SFX_ENABLED" -> [s EXCEPT !.sfxEnabled = a.value]
    [] a.type = "SET_HAPTICS_ENABLED" ->
         Defined([s EXCEPT !.hapticsEnabled = a.value], {"hapticsEnabled"})
    [] a.type = "SET_NOTIFICATIONS_ENABLED" ->
         [s EXCEPT !.notificationsEnabled = a.value]
    [] a.type = "SET_NOTIFICATION_TIME" -> [s EXCEPT !.notificationTime = a.value]
    [] a.type = "SET_NOTE" -> ReduceSetNote(s, a.habitId, a.date, a.note)
    [] a.type = "DELETE_NOTE" -> ReduceDeleteNote(s, a.habitId, a.date)
    [] a.type = "TOGGLE_ROUTINE_STEP" ->
         ReduceToggleRoutineStep(s, a.habitId, a.stepId, a.date)
    [] a.type = "COMPLETE_ONBOARDING" -> [s EXCEPT !.hasCompletedOnboarding = TRUE]
    [] a.type = "SET_PET_SPECIES" -> [s EXCEPT !.petSpecies = a.value]
    [] a.type = "SET_PET_HAT" -> [s EXCEPT !.petHat = a.value]
    [] a.type = "START_FAST" ->
         ReduceStartFast(s, a.habitId, a.duration, a.startTime)
    [] a.type = "UPDATE_FAST_START_TIME" ->
         ReduceUpdateFastStartTime(s, a.habitId, a.startTime)
    [] a.type = "END_FAST" -> ReduceEndFast(s, a.habitId)
    [] OTHER -> s

--------------------------------------------------------------------------
(* Screen handlers: the dispatches each one issues, in order, computed from *)
(* the state the screen was rendered with                                   *)

\* TodayScreen.handleToggle(habitId)
HandleToggleDispatches(s, habitId) ==
  LET found == HasHabit(s, habitId)
      isDone == IsDone(s, habitId, Today)
      isSkipped == IsSkipped(s, habitId, Today)
      isFailed == IsFailed(s, habitId, Today)
      routine == found /\ FindHabit(s, habitId).isRoutine
                       /\ FindHabit(s, habitId).hasSteps
      steps == IF routine THEN FindHabit(s, habitId).steps ELSE <<>>
      completedSteps == CompletedSteps(s, habitId, Today)
      toggleOf(sel) ==
        [i \in 1..Len(sel) |-> ToggleRoutineStepAction(habitId, sel[i], Today)]
      incomplete == SelectSeq(steps, LAMBDA st : ~Includes(completedSteps, st))
      complete == SelectSeq(steps, LAMBDA st : Includes(completedSteps, st))
  IN  IF routine /\ ~isDone /\ ~isSkipped /\ ~isFailed
      THEN toggleOf(incomplete) \o <<ToggleHabitAction(habitId, Today)>>
      ELSE (IF routine THEN toggleOf(complete) ELSE <<>>)
           \o <<IF ~isDone /\ ~isSkipped /\ ~isFailed
                  THEN ToggleHabitAction(habitId, Today)
                ELSE IF isDone THEN SkipHabitAction(habitId, Today)
                ELSE IF isSkipped THEN FailHabitAction(habitId, Today)
                ELSE ToggleHabitAction(habitId, Today)>>

\* TodayScreen.handleToggleRoutineStep(habitId, stepId)
HandleToggleRoutineStepDispatches(s, habitId, stepId) ==
  LET found == HasHabit(s, habitId)
      hasSteps == found /\ FindHabit(s, habitId).hasSteps
      completedSteps == CompletedSteps(s, habitId, Today)
      totalSteps == Len(FindHabit(s, habitId).steps)
      isTogglingOn == ~Includes(completedSteps, stepId)
      newCompletedCount == IF isTogglingOn THEN Len(completedSteps) + 1
                           ELSE Len(completedSteps) - 1
  IN  <<ToggleRoutineStepAction(habitId, stepId, Today)>>
      \o (IF ~hasSteps THEN <<>>
          ELSE IF newCompletedCount = totalSteps /\ ~IsDone(s, habitId, Today)
            THEN <<ToggleHabitAction(habitId, Today)>>
          ELSE IF newCompletedCount < totalSteps /\ IsDone(s, habitId, Today)
            THEN <<ToggleHabitAction(habitId, Today)>>
          ELSE <<>>)

--------------------------------------------------------------------------
(* The state machine *)

Init ==
  /\ state = defaultState
  /\ queue = <<>>
  /\ crashed = FALSE
  /\ last = [type |-> "INIT"]
  /\ storage = NoItem
  /\ io = Idle

\* One run of appReducer inside useReducer; a TypeError is not caught.
Reduce(a) ==
  IF Throws(state, a)
  THEN crashed' = TRUE /\ state' = state
  ELSE crashed' = FALSE /\ state' = appReducer(state, a)

\* The screen is rendered with the current state and no dispatch is pending.
Ready == ~crashed /\ queue = <<>>

\* A handler that dispatches the single action a.
Dispatch(a) ==
  /\ Reduce(a)
  /\ last' = a
  /\ queue' = queue
  /\ UNCHANGED <<storage, io>>

\* A handler that issues the dispatches q; ev names the handler call.
Enqueue(ev, q) ==
  /\ queue' = q
  /\ last' = ev
  /\ UNCHANGED <<state, crashed, storage, io>>

\* The next queued dispatch of the running handler is reduced.
Flush ==
  /\ ~crashed
  /\ queue # <<>>
  /\ Reduce(Head(queue))
  /\ queue' = Tail(queue)
  /\ last' = last
  /\ UNCHANGED <<storage, io>>

\* The payloads of ADD_HABIT: a plain habit and a routine of two steps.
\* A step is represented by its id.
PlainHabit ==
  [id |-> "", name |-> "Meditate", identityId |-> "general", order |-> 1,
   isRoutine |-> FALSE, hasSteps |-> FALSE, steps |-> <<>>]
RoutineHabit ==
  [id |-> "", name |-> "Morning", identityId |-> "general", order |-> 1,
   isRoutine |-> TRUE, hasSteps |-> TRUE, steps |-> <<"s1", "s2">>]

HabitIdsOf(s) == {s.habits[i].id : i \in 1..Len(s.habits)}

\* ADD_HABIT; generateId() returns an id no habit carries yet.
AddHabit(payloads) ==
  \E p \in payloads, id \in HabitIds \ HabitIdsOf(state) :
    /\ Ready
    /\ Dispatch(AddHabitAction(p, id))

\* ADD_HABIT where the routine gets the id h1 and the plain habit h2 (the ids
\* are interchangeable).
AddHabitFixed ==
  \E c \in {<<RoutineHabit, "h1">>, <<PlainHabit, "h2">>} :
    /\ Ready
    /\ c[2] \notin HabitIdsOf(state)
    /\ Dispatch(AddHabitAction(c[1], c[2]))

DeleteHabit ==
  \E h \in HabitIds :
    /\ Ready
    /\ Dispatch(DeleteHabitAction(h))

\* WeekScreen.handleToggle(habitId, date) dispatches the bare TOGGLE_HABIT.
ToggleHabit ==
  \E h \in HabitIds, d \in Days :
    /\ Ready
    /\ Dispatch(ToggleHabitAction(h, d))

SkipHabit ==
  \E h \in HabitIds, d \in Days :
    /\ Ready
    /\ Dispatch(SkipHabitAction(h, d))

FailHabit ==
  \E h \in HabitIds, d \in Days :
    /\ Ready
    /\ Dispatch(FailHabitAction(h, d))

ClearDay ==
  \E d \in Days :
    /\ Ready
    /\ Dispatch(ClearDayAction(d))

\* The bare TOGGLE_ROUTINE_STEP for today (the day plan's checkbox).
ToggleRoutineStep ==
  \E h \in HabitIds, st \in StepIds :
    /\ Ready
    /\ Dispatch(ToggleRoutineStepAction(h, st, Today))

\* A tap on a habit card of the Today screen.
HandleToggle ==
  \E h \in HabitIdsOf(state) :
    /\ Ready
    /\ Enqueue([type |-> "handleToggle", habitId |-> h],
               HandleToggleDispatches(state, h))

\* A tap on a step of an expanded routine card of the Today screen.
HandleToggleRoutineStep ==
  \E h \in HabitIdsOf(state) :
    \E st \in Elems(FindHabit(state, h).steps) :
      /\ Ready
      /\ FindHabit(state, h).isRoutine
      /\ Enqueue([type |-> "handleToggleRoutineStep", habitId |-> h,
                  stepId |-> st],
                 HandleToggleRoutineStepDispatches(state, h, st))

\* The remaining handlers, each dispatching one action for a habit of the
\* screen; habit h1, today.
SetNote ==
  /\ Ready
  /\ Dispatch(SetNoteAction("h1", Today, "note"))

DeleteNote ==
  /\ Ready
  /\ Dispatch(DeleteNoteAction("h1", Today))

SetDayPlanTime ==
  \E t \in {"09:00", "null"} :
    /\ Ready
    /\ Dispatch(SetDayPlanTimeAction("h1", t))

DailySchedule == [time |-> "09:00", duration |-> 30, recurring |-> "daily"]
NullSchedule == [time |-> "null", duration |-> 0, recurring |-> "null"]

SetDayPlanSchedule ==
  \E sch \in {DailySchedule, NullSchedule} :
    /\ Ready
    /\ Dispatch(SetDayPlanScheduleAction("h1", sch))

StartFast ==
  /\ Ready
  /\ Dispatch(StartFastAction("h1", 16, 0))

UpdateFastStartTime ==
  /\ Ready
  /\ Dispatch(UpdateFastStartTimeAction("h1", 1))

EndFast ==
  /\ Ready
  /\ Dispatch(EndFastAction("h1"))

\* The completion handlers restricted to today.
ToggleHabitToday ==
  \E h \in HabitIds :
    /\ Ready
    /\ Dispatch(ToggleHabitAction(h, Today))

SkipHabitToday ==
  \E h \in HabitIds :
    /\ Ready
    /\ Dispatch(SkipHabitAction(h, Today))

FailHabitToday ==
  \E h \in HabitIds :
    /\ Ready
    /\ Dispatch(FailHabitAction(h, Today))

ToggleRoutineStepOne ==
  /\ Ready
  /\ Dispatch(ToggleRoutineStepAction("h1", "s1", Today))

UpdateHabit ==
  \E h \in HabitIdsOf(state) :
    /\ Ready
    /\ Dispatch(UpdateHabitAction([FindHabit(state, h) EXCEPT !.name = "Renamed"]))

\* TodayScreen.handleReorderHabit(habitId, 'down') on the first habit of two.
ReorderHabits ==
  /\ Ready
  /\ Len(state.habits) = 2
  /\ Dispatch(ReorderHabitsAction(<<state.habits[2], state.habits[1]>>))

IdentityIdsOf(s) == {s.identities[i].id : i \in 1..Len(s.identities)}

\* ADD_IDENTITY; generateId() returns an id no identity carries yet.
AddIdentity ==
  \E id \in NewIdentityIds \ IdentityIdsOf(state) :
    /\ Ready
    /\ Len(state.identities) < MaxIdentities
    /\ Dispatch(AddIdentityAction([id |-> "", name |-> "Health", color |-> "#ff0000"], id))

UpdateIdentity ==
  \E id \in {"general"} \cup NewIdentityIds :
    /\ Ready
    /\ Dispatch(UpdateIdentityAction([id |-> id, name |-> "Edited", color |-> "#00ff00"]))

DeleteIdentity ==
  \E id \in {"general"} \cup NewIdentityIds :
    /\ Ready
    /\ Dispatch(DeleteIdentityAction(id))

SetIdentityFilter ==
  \E id \in {"all"} \cup IdentityIdsOf(state) :
    /\ Ready
    /\ Dispatch(SetIdentityFilterAction(id))

\* ADD_HABIT from the edit modal, under one of the identities; the habit's
\* name records the identity it was created under.
AddHabitOfIdentity ==
  \E i \in IdentityIdsOf(state), id \in HabitIds \ HabitIdsOf(state) :
    /\ Ready
    /\ Dispatch(AddHabitAction([PlainHabit EXCEPT !.identityId = i, !.name = i], id))

CompleteOnboarding ==
  /\ Ready
  /\ Dispatch([type |-> "COMPLETE_ONBOARDING"])

SetSfxEnabled ==
  /\ Ready
  /\ Dispatch(SetFlagAction("SET_SFX_ENABLED", ~state.sfxEnabled))

Unknown ==
  /\ Ready
  /\ Dispatch(UnknownAction)

\* A snapshot as an older version of the app serialized it: one habit, one
\* completion, and the fields of m absent.
LegacyFields == {"logs", "marks", "notes"}

LegacyPayload(m) ==
  [defaultState EXCEPT
     !.missing = m \cup {"routineStepLogs", "activeFasts", "hapticsEnabled"},
     !.habits = <<[PlainHabit EXCEPT !.id = "h1"]>>,
     !.logs = IF "logs" \in m THEN EmptyObj ELSE [d \in {Today} |-> <<"h1">>]]

\* AppProvider.loadState: the stored payload is parsed, notes and
\* dayPlanSchedules are backfilled, then LOAD_STATE is dispatched.
LoadStored ==
  \E m \in SUBSET LegacyFields :
    /\ Ready
    /\ last.type = "INIT"
    /\ Dispatch(LoadState([LegacyPayload(m) EXCEPT
                             !.missing = @ \ {"notes", "dayPlanSchedules"}]))

\* SettingsModal.handleImport: the parsed file goes to LOAD_STATE as it is.
ImportData ==
  \E m \in SUBSET LegacyFields :
    /\ Ready
    /\ Dispatch(LoadState(LegacyPayload(m)))

NextCompletion ==
  \/ AddHabit({PlainHabit})
  \/ DeleteHabit
  \/ ToggleHabit
  \/ SkipHabit
  \/ FailHabit
  \/ ClearDay

SpecCompletion == Init /\ [][NextCompletion]_vars

NextRoutine ==
  \/ AddHabitFixed
  \/ ToggleRoutineStep
  \/ ToggleHabit
  \/ HandleToggle
  \/ HandleToggleRoutineStep
  \/ Flush

SpecRoutine == Init /\ [][NextRoutine]_vars

NextDelete ==
  \/ AddHabitFixed
  \/ DeleteHabit
  \/ ToggleHabitToday
  \/ SkipHabitToday
  \/ FailHabitToday
  \/ SetNote
  \/ SetDayPlanTime
  \/ SetDayPlanSchedule
  \/ ToggleRoutineStepOne
  \/ StartFast

SpecDelete == Init /\ [][NextDelete]_vars

NextTotal ==
  \/ LoadStored
  \/ ImportData
  \/ AddHabit({PlainHabit})
  \/ UpdateHabit
  \/ DeleteHabit
  \/ ToggleHabitToday
  \/ SkipHabitToday
  \/ ClearDay
  \/ SetNote
  \/ DeleteNote
  \/ ToggleRoutineStepOne
  \/ EndFast
  \/ DeleteIdentity
  \/ Unknown

SpecTotal == Init /\ [][NextTotal]_vars

NextIdentity ==
  \/ AddIdentity
  \/ UpdateIdentity
  \/ DeleteIdentity
  \/ SetIdentityFilter
  \/ AddHabitOfIdentity

SpecIdentity == Init /\ [][NextIdentity]_vars

Spec == SpecCompletion

--------------------------------------------------------------------------
(* Properties *)

\* The action a is reduced in this step: dispatched by a single-dispatch
\* handler, or taken from the queue of the running handler.
Reduced(a) ==
  \/ queue = <<>> /\ queue' = <<>> /\ last' = a
  \/ queue # <<>> /\ Head(queue) = a /\ queue' = Tail(queue)

StatusOf(s, h, d) ==
  IF IsDone(s, h, d) THEN "done"
  ELSE IF IsSkipped(s, h, d) THEN "skipped"
  ELSE IF IsFailed(s, h, d) THEN "failed"
  ELSE "none"

NextInCycle(st) ==
  CASE st = "none" -> "done"
    [] st = "done" -> "skipped"
    [] st = "skipped" -> "failed"
    [] st = "failed" -> "none"

RoutineIds(s) ==
  {h \in HabitIdsOf(s) : FindHabit(s, h).isRoutine /\ FindHabit(s, h).hasSteps}

FullStepSet(s, h) == Elems(FindHabit(s, h).steps)

StepSet(s, h, d) == Elems(CompletedSteps(s, h, d))

\* C1: for every routine habit h and day d, h is in logs[d] if and only if
\* routineStepLogs[d][h] holds exactly the step ids of h.
C1_RoutineConsistency ==
  \A h \in RoutineIds(state), d \in Days :
    IsDone(state, h, d) <=> StepSet(state, h, d) = FullStepSet(state, h)

\* C2: for every day d and habit id h, h is in at most one of logs[d],
\* marks[d].skip and marks[d].fail.
C2_Exclusivity ==
  \A h \in HabitIds, d \in Days :
    /\ ~(IsDone(state, h, d) /\ IsSkipped(state, h, d))
    /\ ~(IsDone(state, h, d) /\ IsFailed(state, h, d))
    /\ ~(IsSkipped(state, h, d) /\ IsFailed(state, h, d))

\* h1 was failed on d1 by FAIL_HABIT while other pairs hold other statuses.
C2_Witness ==
  /\ last = FailHabitAction("h1", "d1")
  /\ IsFailed(state, "h1", "d1")
  /\ IsSkipped(state, "h2", "d1")
  /\ IsDone(state, "h1", "d2")

\* C3: every TOGGLE_HABIT{h, d} moves the status of h on d one state along
\* the cycle none -> done -> skipped -> failed -> none.
C3_ToggleAdvancesCycle ==
  [][\A h \in HabitIds, d \in Days :
       (Reduced(ToggleHabitAction(h, d)) /\ ~crashed')
         => StatusOf(state', h, d) = NextInCycle(StatusOf(state, h, d))]_vars

\* C5: TOGGLE_HABIT, SKIP_HABIT and FAIL_HABIT for an id that is not in
\* habits raise no exception and leave logs and marks as they were.
C5_StaleTargetNoOp ==
  [][\A h \in HabitIds \ HabitIdsOf(state), d \in Days :
       (\/ Reduced(ToggleHabitAction(h, d))
        \/ Reduced(SkipHabitAction(h, d))
        \/ Reduced(FailHabitAction(h, d)))
         => /\ ~crashed'
            /\ state'.logs = state.logs
            /\ state'.marks = state.marks]_vars

\* C7: TOGGLE_ROUTINE_STEP{h, st, d} flips st in routineStepLogs[d][h] and,
\* in the same transition, puts h into logs[d] when the steps become complete
\* and h was not done, and takes h out of logs[d] when the steps fall below
\* complete and h was done.
C7_StepToggleSyncsParent ==
  [][\A h \in RoutineIds(state), st \in StepIds, d \in Days :
       Reduced(ToggleRoutineStepAction(h, st, d))
         => /\ (st \in StepSet(state', h, d)) <=> (st \notin StepSet(state, h, d))
            /\ (StepSet(state', h, d) = FullStepSet(state, h)
                  /\ ~IsDone(state, h, d)) => IsDone(state', h, d)
            /\ (StepSet(state', h, d) # FullStepSet(state, h)
                  /\ StepSet(state', h, d) \subseteq FullStepSet(state, h)
                  /\ IsDone(state, h, d)) => ~IsDone(state', h, d)]_vars

\* C8: toggling a routine as a whole changes the snapshot in one transition:
\* every snapshot the toggle produces has the routine done with all of its
\* steps completed, or not done with no step completed.
C8_WholeRoutineOneTransition ==
  [][\A h \in RoutineIds(state) :
       (last' = [type |-> "handleToggle", habitId |-> h] /\ state' # state)
         => \/ IsDone(state', h, Today)
                 /\ StepSet(state', h, Today) = FullStepSet(state, h)
            \/ ~IsDone(state', h, Today)
                 /\ StepSet(state', h, Today) = {}]_vars

\* The habit id h occurs somewhere in the snapshot s.
Occurs(s, h) ==
  \/ h \in HabitIdsOf(s)
  \/ \E d \in DOMAIN s.logs : Includes(s.logs[d], h)
  \/ \E d \in DOMAIN s.marks :
       Includes(s.marks[d].skip, h) \/ Includes(s.marks[d].fail, h)
  \/ \E d \in DOMAIN s.notes : h \in DOMAIN s.notes[d]
  \/ h \in DOMAIN s.dayPlanTimes
  \/ h \in DOMAIN s.dayPlanSchedules
  \/ \E d \in DOMAIN s.routineStepLogs : h \in DOMAIN s.routineStepLogs[d]
  \/ h \in DOMAIN s.activeFasts

\* C4: after DELETE_HABIT(h) the id h occurs nowhere in the snapshot: not in
\* habits, logs, marks, notes, dayPlanTimes, dayPlanSchedules, and not as a
\* key of routineStepLogs[d] or of activeFasts.
C4_DeletionCascade ==
  [][\A h \in HabitIdsOf(state) :
       (Reduced(DeleteHabitAction(h)) /\ ~crashed') => ~Occurs(state', h)]_vars

\* C6: the reducer never throws, also on a snapshot loaded from an older
\* payload, and an action of an unknown type leaves the snapshot unchanged.
C6_ReducerTotal ==
  [][/\ ~crashed'
     /\ Reduced(UnknownAction) => state' = state]_vars

\* C9: DELETE_IDENTITY(i), i not 'general', removes i from identities, moves
\* exactly the habits of i to 'general', and resets the filter to 'all' when
\* it was i.
C9_DeleteIdentity ==
  [][\A i \in NewIdentityIds :
       Reduced(DeleteIdentityAction(i))
         => /\ IdentityIdsOf(state') = IdentityIdsOf(state) \ {i}
            /\ \A k \in 1..Len(state.identities) :
                 state.identities[k].id # i
                   => state.identities[k] \in Elems(state'.identities)
            /\ Len(state'.habits) = Len(state.habits)
            /\ \A k \in 1..Len(state.habits) :
                 state'.habits[k] =
                   IF state.habits[k].identityId = i
                   THEN [state.habits[k] EXCEPT !.identityId = "general"]
                   ELSE state.habits[k]
            /\ state'.currentIdentityFilter =
                 IF state.currentIdentityFilter = i THEN "all"
                 ELSE state.currentIdentityFilter]_vars

\* i1 was deleted while it was the filter: its habit now belongs to
\* 'general', the habit of i2 is untouched and the filter is 'all'.
C9_Witness ==
  /\ last = DeleteIdentityAction("i1")
  /\ "i1" \notin IdentityIdsOf(state)
  /\ \E k \in 1..Len(state.habits) :
       state.habits[k].name = "i1" /\ state.habits[k].identityId = "general"
  /\ \E k \in 1..Len(state.habits) :
       state.habits[k].name = "i2" /\ state.habits[k].identityId = "i2"
  /\ state.currentIdentityFilter = "all"

\* C10: the identity 'general' is in identities in every reachable snapshot,
\* and DELETE_IDENTITY('general') leaves the snapshot unchanged.
C10_GeneralAlwaysPresent ==
  /\ []("general" \in IdentityIdsOf(state))
  /\ [][Reduced(DeleteIdentityAction("general")) => state' = state]_vars

\* DELETE_IDENTITY('general') was dispatched with other identities present
\* and a habit owned by 'general'.
C10_Witness ==
  /\ last = DeleteIdentityAction("general")
  /\ Len(state.identities) = MaxIdentities
  /\ \E k \in 1..Len(state.habits) : state.habits[k].identityId = "general"

--------------------------------------------------------------------------
(* Temporal utilities and the query layer (utils/dates.ts, utils/habits.ts) *)

\* An instant is a whole number of hours since the epoch, in UTC.  A day key
\* "YYYY-MM-DD" is represented by the number of that calendar day counted
\* from 1970-01-01 (day 0, a Thursday).  The offset of the device's local
\* time from UTC is tz hours; daylight-saving changes are left out.
HoursPerDay == 24
MAX_MISSED_DAYS == 1
ScanDays == 365

\* The device's time zones and clock readings that are enumerated: UTC day 17
\* (a Sunday) early, at noon and late.
TimeZones == {-8, 0, 2}
Clock == {17 * HoursPerDay + 1, 17 * HoursPerDay + 12, 17 * HoursPerDay + 23}

\* Day keys on which completions are recorded.
LogDays == {10, 11, 15, 16, 17, 18}

\* Date.prototype.toISOString().slice(0, 10): the UTC calendar day.
IsoDay(t) == t \div HoursPerDay

\* The local calendar day of an instant (what getDate and getDay read).
LocalDay(t, tz) == (t + tz) \div HoursPerDay

\* The instant of 00:00 local time on a local calendar day, which is what
\* setHours(0, 0, 0, 0) and new Date(key + 'T00:00:00') produce.
LocalMidnight(day, tz) == day * HoursPerDay - tz

todayStr(now) == IsoDay(now)

dateStr(t, tz) == IsoDay(LocalMidnight(LocalDay(t, tz), tz))

\* Date.prototype.getDay: 0 = Sunday.
getDay(t, tz) == (LocalDay(t, tz) + 4) % 7

startOfWeek(t, tz) ==
  LET day == (getDay(t, tz) + 6) % 7
  IN LocalMidnight(LocalDay(t, tz) - day, tz)

\* countThisWeek with the upper comparison strict.
countThisWeekExclusiveEnd(logs, habitId, referenceDate, tz) ==
  LET weekStart == startOfWeek(referenceDate, tz)
      weekEnd == weekStart + 6 * HoursPerDay
  IN Cardinality({day \in DOMAIN logs :
                    LET d == LocalMidnight(day, tz)
                    IN d >= weekStart /\ d < weekEnd
                       /\ Includes(logs[day], habitId)})

countThisWeek(logs, habitId, referenceDate, tz) ==
  LET weekStart == startOfWeek(referenceDate, tz)
      weekEnd == weekStart + 6 * HoursPerDay
  IN Cardinality({day \in DOMAIN logs :
                    LET d == LocalMidnight(day, tz)
                    IN d >= weekStart /\ d <= weekEnd
                       /\ Includes(logs[day], habitId)})

\* The loop of calculateStreak from iteration i on.
RECURSIVE StreakLoop(_, _, _, _, _, _, _)
StreakLoop(logs, habitId, now, tz, i, streak, missedDays) ==
  IF i >= ScanDays THEN streak
  ELSE LET ds == dateStr(now - i * HoursPerDay, tz)
           dayLogs == GetOr(logs, ds, <<>>)
       IN IF Includes(dayLogs, habitId)
          THEN StreakLoop(logs, habitId, now, tz, i + 1, streak + 1, missedDays)
          ELSE IF missedDays + 1 > MAX_MISSED_DAYS
               THEN streak
               ELSE StreakLoop(logs, habitId, now, tz, i + 1, streak,
                               missedDays + 1)

calculateStreak(logs, habitId, now, tz) ==
  StreakLoop(logs, habitId, now, tz, 0, 0, 0)

\* WeekScreen.handleToggle for a day of the displayed week (any week can be
\* displayed); h2 is completed on day 17 only.
ToggleHabitOnDay ==
  \E c \in ({"h1"} \X LogDays) \cup {<<"h2", 17>>} :
    /\ Ready
    /\ Dispatch(ToggleHabitAction(c[1], c[2]))

\* A habit card is rendered: it shows calculateStreak(logs, habit.id).
RenderStreak ==
  \E now \in Clock, tz \in TimeZones :
    /\ Ready
    /\ last' = [type |-> "calculateStreak", habitId |-> "h1", now |-> now,
                tz |-> tz,
                result |-> calculateStreak(state.logs, "h1", now, tz)]
    /\ UNCHANGED <<state, queue, crashed, storage, io>>

\* A habit card is rendered: it shows countThisWeek(logs, habit.id).
RenderThisWeek ==
  \E now \in Clock, tz \in TimeZones :
    /\ Ready
    /\ last' = [type |-> "countThisWeek", habitId |-> "h1", now |-> now,
                tz |-> tz,
                result |-> countThisWeek(state.logs, "h1", now, tz)]
    /\ UNCHANGED <<state, queue, crashed, storage, io>>

NextQuery ==
  \/ ToggleHabitOnDay
  \/ RenderStreak
  \/ RenderThisWeek

SpecQuery == Init /\ [][NextQuery]_vars

\* The days of logs on which habit h is completed.
DoneDays(logs, h) == {d \in DOMAIN logs : Includes(logs[d], h)}

\* The number of completed days among today, today-1, ... before the second
\* day that is not completed, at most n days being scanned.
RECURSIVE StreakOf(_, _, _, _)
StreakOf(done, today, n, misses) ==
  IF n = 0 THEN 0
  ELSE IF today \in done THEN 1 + StreakOf(done, today - 1, n - 1, misses)
  ELSE IF misses >= 1 THEN 0
  ELSE StreakOf(done, today - 1, n - 1, misses + 1)

MondayOf(day) == day - ((day + 3) % 7)

\* C12: countThisWeek is the number of day keys of the Monday-to-Sunday week
\* containing the reference date (both ends included) on which the habit is
\* completed; completions outside that week do not count.
C12_WeeklyProgress ==
  last.type = "countThisWeek" =>
    LET monday == MondayOf(LocalDay(last.now, last.tz))
    IN last.result =
         Cardinality(DoneDays(state.logs, last.habitId)
                       \cap (monday .. monday + 6))

\* The week 11..17 is counted with its Monday and its Sunday completed and
\* completions on the days next to it, 10 and 18.
C12_Witness ==
  /\ last.type = "countThisWeek"
  /\ LocalDay(last.now, last.tz) = 17
  /\ {10, 11, 17, 18} \subseteq DoneDays(state.logs, "h1")
  /\ 16 \notin DoneDays(state.logs, "h1")
  /\ last.result = 3

--------------------------------------------------------------------------
(* Repeated taps *)

\* Four taps on the same cell of the Week screen: WeekScreen.handleToggle
\* runs four times and dispatches TOGGLE_HABIT for the same habit and day
\* each time.  The status before the first tap is recorded.
ToggleFourTimes ==
  \E h \in HabitIds, d \in Days :
    /\ Ready
    /\ Enqueue([type |-> "fourTaps", habitId |-> h, date |-> d,
                from |-> StatusOf(state, h, d)],
               [i \in 1..4 |-> ToggleHabitAction(h, d)])

NextCycle ==
  \/ ToggleHabit
  \/ SkipHabit
  \/ FailHabit
  \/ ToggleFourTimes
  \/ Flush

SpecCycle == Init /\ [][NextCycle]_vars

\* C13: four TOGGLE_HABIT for the same (habit, day), applied to a snapshot in
\* which the habit's status for the day is none, end in a snapshot in which
\* the habit is in none of logs[day], marks[day].skip and marks[day].fail.
C13_FourTogglesFromNone ==
  (last.type = "fourTaps" /\ last.from = "none" /\ queue = <<>>) =>
    /\ ~IsDone(state, last.habitId, last.date)
    /\ ~IsSkipped(state, last.habitId, last.date)
    /\ ~IsFailed(state, last.habitId, last.date)

\* The four toggles of h1 on d1 have all been reduced, starting from none,
\* on a day whose marks hold the other habit.
C13_Witness ==
  /\ last.type = "fourTaps"
  /\ last.from = "none"
  /\ last.habitId = "h1"
  /\ last.date = "d1"
  /\ queue = <<>>
  /\ "d1" \in DOMAIN state.logs
  /\ IsSkipped(state, "h2", "d1")

\* C14: SKIP_HABIT{h, d} leaves h in marks[d].skip and in neither logs[d] nor
\* marks[d].fail, FAIL_HABIT{h, d} leaves h in marks[d].fail and in neither
\* logs[d] nor marks[d].skip, and the completed/skipped/failed membership of
\* every other (habit, day) pair is unchanged.
C14_SkipFailFrame ==
  [][\A h \in HabitIds, d \in Days :
       LET others == {p \in HabitIds \X Days : p # <<h, d>>}
           frame == \A p \in others :
                      /\ IsDone(state', p[1], p[2]) = IsDone(state, p[1], p[2])
                      /\ IsSkipped(state', p[1], p[2])
                           = IsSkipped(state, p[1], p[2])
                      /\ IsFailed(state', p[1], p[2])
                           = IsFailed(state, p[1], p[2])
       IN /\ Reduced(SkipHabitAction(h, d)) =>
               /\ IsSkipped(state', h, d)
               /\ ~IsDone(state', h, d)
               /\ ~IsFailed(state', h, d)
               /\ frame
          /\ Reduced(FailHabitAction(h, d)) =>
               /\ IsFailed(state', h, d)
               /\ ~IsDone(state', h, d)
               /\ ~IsSkipped(state', h, d)
               /\ frame]_vars

\* h2 was skipped on d2 by SKIP_HABIT while other pairs hold other statuses.
C14_Witness ==
  /\ last = SkipHabitAction("h2", "d2")
  /\ IsSkipped(state, "h2", "d2")
  /\ IsDone(state, "h1", "d2")
  /\ IsFailed(state, "h2", "d1")
  /\ IsSkipped(state, "h1", "d1")

--------------------------------------------------------------------------
(* Notes *)

\* The texts NoteModal.handleSave passes to onSave: note.trim().
NoteTexts == {"", "note", "other"}

\* handleSaveNote of the Today and Calendar screens: SET_NOTE is dispatched
\* only if the trimmed note is not empty.
HandleSaveNote ==
  \E h \in HabitIds, d \in Days, n \in NoteTexts :
    /\ Ready
    /\ Enqueue([type |-> "handleSaveNote", habitId |-> h, date |-> d,
                note |-> n],
               IF n # "" THEN <<SetNoteAction(h, d, n)>> ELSE <<>>)

\* handleDeleteNote of the Today and Calendar screens.
HandleDeleteNote ==
  \E h \in HabitIds, d \in Days :
    /\ Ready
    /\ Dispatch(DeleteNoteAction(h, d))

NextNotes ==
  \/ HandleSaveNote
  \/ HandleDeleteNote
  \/ Flush

SpecNotes == Init /\ [][NextNotes]_vars

\* The habits that have an entry in the Note Index for day d.
NotedHabits(s, d) == DOMAIN GetOr(s.notes, d, EmptyObj)

\* C15: every note in the Note Index is a non-empty string; saving the empty
\* string for a (date, habit) pair leaves no entry for that pair; DELETE_NOTE
\* removes the entry of exactly that pair.
C15_NotesNonEmpty ==
  /\ [](\A d \in DOMAIN state.notes :
          \A h \in DOMAIN state.notes[d] : state.notes[d][h] # "")
  /\ []((last.type = "handleSaveNote" /\ last.note = "" /\ queue = <<>>)
          => last.habitId \notin NotedHabits(state, last.date))
  /\ [][\A h \in HabitIds, d \in Days :
          Reduced(DeleteNoteAction(h, d)) =>
            /\ NotedHabits(state', d) = NotedHabits(state, d) \ {h}
            /\ \A d2 \in Days \ {d} :
                 NotedHabits(state', d2) = NotedHabits(state, d2)]_vars

--------------------------------------------------------------------------
(* Export and import (components/SettingsModal.tsx) *)

\* The keys of a snapshot object.
SnapshotKeys == DOMAIN defaultState \ {"missing"}

\* JSON.stringify(appState): the object with the keys whose value is defined.
Stringify(s) == [f \in SnapshotKeys \ s.missing |-> s[f]]

\* A parsed JSON object read as an AppState: a key the object does not have
\* reads as undefined; keys that are not snapshot keys are carried along
\* unread.
AsSnapshot(data) ==
  [f \in SnapshotKeys \cup {"missing"} |->
     IF f = "missing" THEN SnapshotKeys \ DOMAIN data
     ELSE IF f \in DOMAIN data THEN data[f]
     ELSE defaultState[f]]

\* The object without the keys ks.
Drop(data, ks) == [f \in DOMAIN data \ ks |-> data[f]]

Platforms == {"web", "mobile"}

\* The file the user picks, parsed: the file handleExport wrote for the
\* current snapshot; that snapshot wrapped as {version, exportedAt, data};
\* the export without its habits, or without its identities; a backup of an
\* older version, without the later fields; the empty object.
ExportKinds == {"export"}
FileKinds == {"export", "wrapped", "noHabits", "noIdentities", "legacy",
              "empty"}

ImportFile(kind, s) ==
  CASE kind = "export" -> Stringify(s)
    [] kind = "wrapped" ->
         [version |-> "1.0.0", exportedAt |-> "now", data |-> Stringify(s)]
    [] kind = "noHabits" -> Drop(Stringify(s), {"habits"})
    [] kind = "noIdentities" -> Drop(Stringify(s), {"identities"})
    [] kind = "legacy" ->
         Drop(Stringify(s), {"logs", "marks", "notes", "dayPlanSchedules",
                             "routineStepLogs", "activeFasts",
                             "hapticsEnabled"})
    [] kind = "empty" -> EmptyObj

\* SettingsModal.handleImport: on the web the parsed file goes to
\* onImportData as it is; on a device it must have a habits array and an
\* identities array.  onImportData dispatches LOAD_STATE.
HandleImport(kinds) ==
  \E platform \in Platforms, kind \in kinds :
    LET data == ImportFile(kind, state)
        accepted == \/ platform = "web"
                    \/ {"habits", "identities"} \subseteq DOMAIN data
    IN /\ Ready
       /\ Enqueue([type |-> "handleImport", platform |-> platform,
                   file |-> data],
                  IF accepted THEN <<LoadState(AsSnapshot(data))>> ELSE <<>>)

NextRoundTrip ==
  \/ AddHabitFixed
  \/ ToggleHabitToday
  \/ SkipHabitToday
  \/ ToggleRoutineStepOne
  \/ SetNote
  \/ StartFast
  \/ HandleImport(ExportKinds)
  \/ Flush

SpecRoundTrip == Init /\ [][NextRoundTrip]_vars

NextImport ==
  \/ AddHabit({PlainHabit})
  \/ ToggleHabitToday
  \/ SetNote
  \/ HandleImport(FileKinds)
  \/ Flush

SpecImport == Init /\ [][NextImport]_vars

\* The action that this step reduces, if it reduces one.
ReducedAction == IF queue # <<>> THEN Head(queue) ELSE last'

\* C16: LOAD_STATE replaces the snapshot by its payload with every field the
\* payload lacks set to its default, and applying LOAD_STATE to its own
\* result returns that result.
C16_LoadStateBackfills ==
  [][(ReducedAction.type = "LOAD_STATE" /\ Reduced(ReducedAction)) =>
       /\ ~crashed'
       /\ state' = [ReducedAction.payload EXCEPT !.missing = {}]
       /\ appReducer(state', LoadState(state')) = state']_vars

Malformed(file) ==
  \/ "data" \notin DOMAIN file
  \/ "version" \notin DOMAIN file
  \/ "habits" \notin DOMAIN file.data
  \/ "identities" \notin DOMAIN file.data

\* C18: the import of a malformed file dispatches no LOAD_STATE and leaves
\* the snapshot unchanged.
C18_ImportRejectsMalformed ==
  [][(queue = <<>> /\ last'.type = "handleImport" /\ Malformed(last'.file))
       => (queue' = <<>> /\ state' = state)]_vars

--------------------------------------------------------------------------
(* Determinism of the reducer *)

\* C19: two applications of the same action to the same snapshot return equal
\* snapshots: the result of ADD_HABIT does not depend on anything but the
\* snapshot and the action's payload, whichever id generateId() returns.
C19_Deterministic ==
  [][(ReducedAction.type = "ADD_HABIT" /\ Reduced(ReducedAction)
        /\ ~crashed')
       => \A id \in HabitIds \ HabitIdsOf(state) :
            state' = ReduceAddHabit(state, ReducedAction.payload, id)]_vars

--------------------------------------------------------------------------
(* Fasting timer (utils/fasting, FastingModal, FastingTimerCard) *)

\* Times are in hours, as in ReduceStartFast.  The durations offered by
\* FastingModal that are enumerated, the start times the user sets, and the
\* clock readings at which a card is rendered or its timer ticks.
Durations == {16, 24}
StartTimes == {0, 8}
NowValues == {0, 15, 16, 17, 24, 32, 40}

\* getRemainingTime without the clamp at zero.
getRemainingTimeUnclamped(fast, now) == fast.targetTime - now

\* now is the value of Date.now().
getRemainingTime(fast, now) ==
  LET remaining == fast.targetTime - now
  IN IF remaining > 0 THEN remaining ELSE 0

isFastComplete(fast, now) == getRemainingTime(fast, now) = 0

\* FastingModal.handleSelect -> TodayScreen.handleStartFast.
HandleStartFast ==
  \E h \in HabitIds, dur \in Durations, t \in StartTimes :
    /\ Ready
    /\ Dispatch(StartFastAction(h, dur, t))

HandleUpdateFastStartTime ==
  \E h \in HabitIds, t \in StartTimes :
    /\ Ready
    /\ Dispatch(UpdateFastStartTimeAction(h, t))

\* The Cancel button of the card: TodayScreen.handleEndFast.
HandleEndFast ==
  \E h \in HabitIds :
    /\ Ready
    /\ Dispatch(EndFastAction(h))

\* The one-second interval of FastingTimerCard, which runs while the habit
\* has a fast and is not completed today: it reads the remaining time and
\* calls onEndFast when that is zero.
TimerTick ==
  \E h \in HabitIds, now \in NowValues :
    /\ Ready
    /\ h \in DOMAIN state.activeFasts
    /\ ~IsDone(state, h, Today)
    /\ LET remaining == getRemainingTime(state.activeFasts[h], now)
       IN Enqueue([type |-> "timerTick", habitId |-> h, now |-> now,
                   remaining |-> remaining,
                   complete |-> isFastComplete(state.activeFasts[h], now)],
                  IF remaining = 0 THEN <<EndFastAction(h)>> ELSE <<>>)

NextFast ==
  \/ AddHabitFixed
  \/ DeleteHabit
  \/ ToggleHabitToday
  \/ HandleStartFast
  \/ HandleUpdateFastStartTime
  \/ HandleEndFast
  \/ TimerTick
  \/ Flush

SpecFast == Init /\ [][NextFast]_vars

\* The habits that have a fast.
Fasting(s) == DOMAIN s.activeFasts

\* C20: START_FAST creates the habit's record with targetTime = startTime +
\* duration; while now < targetTime the remaining time is positive and the
\* fast is not complete; from now >= targetTime on the remaining time is 0
\* and the fast is complete; the record leaves activeFasts only by END_FAST,
\* which removes the habit's key whether or not a fast exists or is
\* complete; no other action changes a record but START_FAST and
\* UPDATE_FAST_START_TIME of that habit.
C20_FastLifecycle ==
  /\ [](\A h \in Fasting(state), now \in NowValues :
          LET fast == state.activeFasts[h]
          IN /\ fast.targetTime = fast.startTime + fast.duration
             /\ now < fast.targetTime =>
                  (getRemainingTime(fast, now) > 0
                     /\ ~isFastComplete(fast, now))
             /\ now >= fast.targetTime =>
                  (getRemainingTime(fast, now) = 0
                     /\ isFastComplete(fast, now)))
  /\ [][\A h \in HabitIds :
          /\ \A dur \in Durations, t \in StartTimes :
               Reduced(StartFastAction(h, dur, t)) =>
                 /\ h \in Fasting(state')
                 /\ state'.activeFasts[h] =
                      [habitId |-> h, startTime |-> t, duration |-> dur,
                       targetTime |-> t + dur]
          /\ Reduced(EndFastAction(h)) =>
               /\ ~crashed'
               /\ Fasting(state') = Fasting(state) \ {h}
               /\ \A k \in Fasting(state') :
                    state'.activeFasts[k] = state.activeFasts[k]
          /\ (h \in Fasting(state) /\ h \notin Fasting(state')) =>
               Reduced(EndFastAction(h))
          /\ (h \in Fasting(state) /\ h \in Fasting(state')
                /\ state'.activeFasts[h] # state.activeFasts[h]) =>
               (ReducedAction.type \in {"START_FAST", "UPDATE_FAST_START_TIME"}
                  /\ ReducedAction.habitId = h
                  /\ Reduced(ReducedAction))]_vars

\* The timer of h1 ticked after the target time, found the fast complete and
\* ended it, while the fast of h2 is still in activeFasts.
C20_Witness ==
  /\ last.type = "timerTick"
  /\ last.habitId = "h1"
  /\ last.remaining = 0
  /\ last.complete
  /\ queue = <<>>
  /\ "h1" \notin Fasting(state)
  /\ "h2" \in Fasting(state)

\* C21: every record of activeFasts is stored under its own habitId and has
\* targetTime = startTime + duration; UPDATE_FAST_START_TIME sets startTime,
\* recomputes targetTime with the existing duration, and returns the snapshot
\* unchanged when the habit has no fast.
C21_FastRecords ==
  /\ [](\A h \in Fasting(state) :
          /\ state.activeFasts[h].habitId = h
          /\ state.activeFasts[h].targetTime =
               state.activeFasts[h].startTime + state.activeFasts[h].duration)
  /\ [][\A h \in HabitIds, t \in StartTimes :
          Reduced(UpdateFastStartTimeAction(h, t)) =>
            IF h \in Fasting(state)
            THEN /\ h \in Fasting(state')
                 /\ state'.activeFasts[h].startTime = t
                 /\ state'.activeFasts[h].duration
                      = state.activeFasts[h].duration
                 /\ state'.activeFasts[h].targetTime
                      = t + state.activeFasts[h].duration
            ELSE state' = state]_vars

\* The start time of the 24-hour fast of h1 was moved from 0 to 8 while h2
\* has a fast of its own.
C21_Witness ==
  /\ last = UpdateFastStartTimeAction("h1", 8)
  /\ "h1" \in Fasting(state)
  /\ state.activeFasts["h1"].duration = 24
  /\ state.activeFasts["h1"].targetTime = 32
  /\ "h2" \in Fasting(state)
  /\ state.activeFasts["h2"].startTime = 0

--------------------------------------------------------------------------
(* Habit order (ADD_HABIT, UPDATE_HABIT, REORDER_HABITS, sortByOrder) *)

\* The ids generateId() returns in the runs about order, and the names the
\* user types.
OrderIds == {"h1", "h2", "h3"}
Names == {"Alpha", "Beta"}

\* The names in the order of String.prototype.localeCompare.
Collation == <<"Alpha", "Beta", "Meditate", "Morning", "Renamed">>
NameIndex(n) == CHOOSE i \in 1..Len(Collation) : Collation[i] = n

\* Array.prototype.sort with a comparator: the sort is stable, so elements
\* that compare equal keep the order they have in the array.
\* Lt(a, b) is "the comparator returns a negative number for (a, b)".
StableSort(arr, Lt(_, _)) ==
  LET n == Len(arr)
      Rank(i) == Cardinality({j \in 1..n :
                    \/ Lt(arr[j], arr[i])
                    \/ (~Lt(arr[i], arr[j]) /\ j < i)}) + 1
  IN [k \in 1..n |-> arr[CHOOSE i \in 1..n : Rank(i) = k]]

\* (a.order || 999)
OrderKey(h) == IF h.order = 0 THEN 999 ELSE h.order

sortByOrder(habits) ==
  StableSort(habits,
             LAMBDA a, b :
               \/ OrderKey(a) < OrderKey(b)
               \/ (OrderKey(a) = OrderKey(b)
                     /\ NameIndex(a.name) < NameIndex(b.name)))

\* [...state.habits].sort((a, b) => a.order - b.order)
SortByOrderOnly(habits) == StableSort(habits, LAMBDA a, b : a.order < b.order)

\* The index of the habit id in the array (findIndex).
IndexOfHabit(arr, id) == CHOOSE i \in 1..Len(arr) : arr[i].id = id

\* handleQuickAdd: ADD_HABIT for the typed name.
AddNamedHabit ==
  \E n \in Names, id \in OrderIds \ HabitIdsOf(state) :
    /\ Ready
    /\ Dispatch(AddHabitAction([PlainHabit EXCEPT !.name = n,
                                  !.order = Len(state.habits) + 1], id))

\* handleDeleteHabit for a habit of the list.
DeleteListedHabit ==
  \E h \in HabitIdsOf(state) :
    /\ Ready
    /\ Dispatch(DeleteHabitAction(h))

\* handleReorderHabit(habitId, direction): the habit is moved one place up or
\* down in the habits sorted by order, and the whole list is dispatched.
HandleReorderHabit ==
  \E h \in HabitIdsOf(state), direction \in {"up", "down"} :
    LET sortedHabits == SortByOrderOnly(state.habits)
        currentIndex == IndexOfHabit(sortedHabits, h)
        newIndex == IF direction = "up" THEN currentIndex - 1
                    ELSE currentIndex + 1
        reordered == [i \in 1..Len(sortedHabits) |->
                        IF i = newIndex THEN sortedHabits[currentIndex]
                        ELSE IF i = currentIndex THEN sortedHabits[newIndex]
                        ELSE sortedHabits[i]]
    IN /\ Ready
       /\ ~(direction = "up" /\ currentIndex = 1)
       /\ ~(direction = "down" /\ currentIndex = Len(sortedHabits))
       /\ Dispatch(ReorderHabitsAction(reordered))

\* EditHabitModal.handleSave for an existing habit with a position picked in
\* the order picker (1..totalHabits): handleSaveHabit dispatches UPDATE_HABIT
\* with { ...existingHabit, ...habitData }.
HandleSaveHabitOrder ==
  \E h \in HabitIdsOf(state), o \in 1..Len(state.habits) :
    /\ Ready
    /\ Dispatch(UpdateHabitAction([FindHabit(state, h) EXCEPT !.order = o]))

NextOrder ==
  \/ AddNamedHabit
  \/ DeleteListedHabit
  \/ HandleReorderHabit
  \/ HandleSaveHabitOrder
  \/ ToggleHabitToday

SpecOrder == Init /\ [][NextOrder]_vars

\* The ids of a sequence of habits, in sequence order.
IdsOf(habits) == [i \in 1..Len(habits) |-> habits[i].id]

\* C22: ADD_HABIT appends exactly one habit, leaves the existing habits as
\* they were, gives the new habit an id no existing habit has, and the new
\* habit is the last of the habits sorted by order.
C22_AddHabitAtEnd ==
  [][(ReducedAction.type = "ADD_HABIT" /\ Reduced(ReducedAction)
        /\ ~crashed') =>
       /\ Len(state'.habits) = Len(state.habits) + 1
       /\ SubSeq(state'.habits, 1, Len(state.habits)) = state.habits
       /\ state'.habits[Len(state'.habits)].id \notin HabitIdsOf(state)
       /\ sortByOrder(state'.habits)[Len(state'.habits)]
            = state'.habits[Len(state'.habits)]]_vars

\* C23: REORDER_HABITS with a full ordering of the habits gives each habit
\* its position as order, so that sorting by order reproduces the supplied
\* sequence; and no other action changes the order of an existing habit.
C23_OrderOnlyByReorder ==
  [][/\ (ReducedAction.type = "REORDER_HABITS" /\ Reduced(ReducedAction)
           /\ Len(ReducedAction.payload) = Len(state.habits)
           /\ {ReducedAction.payload[i] : i \in 1..Len(state.habits)}
                = {state.habits[i] : i \in 1..Len(state.habits)}) =>
          /\ \A i \in 1..Len(state'.habits) : state'.habits[i].order = i
          /\ IdsOf(sortByOrder(state'.habits)) = IdsOf(ReducedAction.payload)
     /\ \A h \in HabitIdsOf(state) \cap HabitIdsOf(state') :
          FindHabit(state', h).order # FindHabit(state, h).order =>
            (ReducedAction.type = "REORDER_HABITS"
               /\ Reduced(ReducedAction))]_vars

--------------------------------------------------------------------------
(* getActiveHabits (utils/habits.ts) *)

\* The habits the function is applied to: two habits whose order, name,
\* identity and days mask are drawn from these values.  A mask is the array
\* of seven booleans indexed by getDay() (0 = Sunday); hasDays is false when
\* the habit has no days array.
OrderValues == {0, 1, 2}
IdentityValues == {"general", "i1"}
WeekdaysOnly == <<FALSE, TRUE, TRUE, TRUE, TRUE, TRUE, FALSE>>
MaskValues == {<<FALSE, WeekdaysOnly>>, <<TRUE, WeekdaysOnly>>}
Weekdays == {0, 1}
Filters == {"all", "general", "i1"}

QueryHabit(id, o, n, i, m) ==
  [id |-> id, name |-> n, identityId |-> i, order |-> o, isRoutine |-> FALSE,
   hasSteps |-> FALSE, steps |-> <<>>, hasDays |-> m[1], days |-> m[2]]

QueryHabits(id) ==
  {QueryHabit(id, o, n, i, m) :
     o \in OrderValues, n \in Names, i \in IdentityValues, m \in MaskValues}

\* day is date.getDay()
isHabitActiveOn(habit, day) ==
  IF ~habit.hasDays THEN TRUE ELSE habit.days[day + 1]

getActiveHabits(habits, day, identityFilter) ==
  LET byIdentity == IF identityFilter # "all"
                    THEN SelectSeq(habits,
                                   LAMBDA h : h.identityId = identityFilter)
                    ELSE habits
      filtered == SelectSeq(byIdentity, LAMBDA h : isHabitActiveOn(h, day))
  IN sortByOrder(filtered)

\* A snapshot whose habits are two habits of QueryHabits.
InitActive ==
  /\ \E a \in QueryHabits("h1"), b \in QueryHabits("h2") :
       state = [defaultState EXCEPT !.habits = <<a, b>>]
  /\ queue = <<>>
  /\ crashed = FALSE
  /\ last = [type |-> "INIT"]
  /\ storage = NoItem
  /\ io = Idle

\* A screen is rendered: getActiveHabits(state.habits, date, filter).
RenderActiveHabits ==
  \E day \in Weekdays, f \in Filters :
    /\ Ready
    /\ last' = [type |-> "getActiveHabits", day |-> day, filter |-> f,
                result |-> getActiveHabits(state.habits, day, f)]
    /\ UNCHANGED <<state, queue, crashed, storage, io>>

NextActive == RenderActiveHabits

SpecActive == InitActive /\ [][NextActive]_vars

\* The arrays with the same elements as arr in any order.
Arrangements(arr) ==
  {[i \in 1..Len(arr) |-> arr[f[i]]] :
     f \in {g \in [1..Len(arr) -> 1..Len(arr)] :
              \A i, j \in 1..Len(arr) : g[i] = g[j] => i = j}}

\* C24: getActiveHabits returns exactly the habits of the filter's identity
\* (all habits for "all") that are active on the date's weekday, sorted by
\* order ascending with the name as tie-break, and the result is the same
\* for every arrangement of the input array.
C24_ActiveHabits ==
  last.type = "getActiveHabits" =>
    LET r == last.result
        wanted == {h \in Elems(state.habits) :
                     /\ last.filter = "all" \/ h.identityId = last.filter
                     /\ ~h.hasDays \/ h.days[last.day + 1]}
    IN /\ Elems(r) = wanted
       /\ Len(r) = Cardinality(wanted)
       /\ \A i, j \in 1..Len(r) :
            i < j => \/ r[i].order < r[j].order
                     \/ (r[i].order = r[j].order
                           /\ NameIndex(r[i].name) <= NameIndex(r[j].name))
       /\ \A p \in Arrangements(state.habits) :
            getActiveHabits(p, last.day, last.filter) = r


(***************************************************************************)
(* Day keys and the month grid (src/src/utils/dates.ts).  The functions    *)
(* are applied to every hour of one day in every time zone, and to every   *)
(* month shape: the weekday of the 1st and the number of days.             *)
(***************************************************************************)

\* The instants of one UTC day, one per hour.
DayHours == {17 * HoursPerDay + h : h \in 0..(HoursPerDay - 1)}

\* The local calendar day on which a month starts, and the month's length.
MonthFirstDays == 0..6
MonthLengths == 28..31

\* A cell of the month grid: a Date (an instant) or null.
NullCell == [null |-> TRUE]
DateCell(t) == [date |-> t]

\* isToday(date) with the clock at now.
isToday(t, now, tz) == dateStr(t, tz) = todayStr(now)

RECURSIVE PadToWeek(_)
\* while (cells.length % 7 !== 0) cells.push(null)
PadToWeek(cells) ==
  IF Len(cells) % 7 # 0 THEN PadToWeek(Append(cells, NullCell)) ELSE cells

\* getMonthCells, given startOfMonth(date) and endOfMonth(date).getDate().
getMonthCells(monthStart, totalDays, tz) ==
  LET startWeekday == (getDay(monthStart, tz) + 6) % 7
      padding == [i \in 1..startWeekday |-> NullCell]
      days == [d \in 1..totalDays |->
                 DateCell(LocalMidnight(LocalDay(monthStart, tz) + d - 1, tz))]
  IN PadToWeek(padding \o days)

\* WeekScreen and CalendarScreen: the key of a date is dateStr(date).
RenderDateStr ==
  \E t \in DayHours, tz \in TimeZones :
    /\ last' = [type |-> "dateStr", date |-> t, tz |-> tz,
                key |-> dateStr(t, tz)]
    /\ UNCHANGED <<state, queue, crashed, storage, io>>

\* TodayScreen reads todayStr(); calculateStreak and isToday read
\* dateStr(new Date()) at the same instant.
RenderIsToday ==
  \E now \in DayHours, tz \in TimeZones :
    /\ last' = [type |-> "isToday", now |-> now, tz |-> tz,
                today |-> todayStr(now), key |-> dateStr(now, tz),
                isToday |-> isToday(now, now, tz)]
    /\ UNCHANGED <<state, queue, crashed, storage, io>>

\* CalendarScreen: monthCells = getMonthCells(viewingMonth).
RenderMonthCells ==
  \E first \in MonthFirstDays, n \in MonthLengths, tz \in TimeZones :
    /\ last' = [type |-> "getMonthCells", first |-> first, days |-> n,
                tz |-> tz,
                cells |-> getMonthCells(LocalMidnight(first, tz), n, tz)]
    /\ UNCHANGED <<state, queue, crashed, storage, io>>

NextDates == RenderDateStr \/ RenderIsToday \/ RenderMonthCells

SpecDates == Init /\ [][NextDates]_vars

\* C25: dateStr(date) is the key of the local calendar day of date, for
\* every instant and every time zone offset, east or west of UTC.
C25_DayKeyIsLocalDay ==
  last.type = "dateStr" => last.key = LocalDay(last.date, last.tz)

\* Position of the Monday-first weekday of a local day: Monday = 0.
MondayFirst(day) == (day + 3) % 7

\* C26: getMonthCells returns exactly 42 cells for every month: the 1st is in
\* the Monday-first column of its weekday, the cells before the 1st and after
\* the last day are null, and the days are in increasing order.
C26_MonthGrid ==
  last.type = "getMonthCells" =>
    LET cells == last.cells
        lead == MondayFirst(last.first)
    IN /\ Len(cells) = 42
       /\ \A i \in 1..Len(cells) :
            IF i > lead /\ i <= lead + last.days
              THEN cells[i] = DateCell(LocalMidnight(last.first + i - lead - 1,
                                                     last.tz))
              ELSE cells[i] = NullCell

\* C28: todayStr() and dateStr(now) are the same key at every instant and in
\* every time zone, so isToday(now) is true.
C28_TodayKeyAgrees ==
  last.type = "isToday" => (last.today = last.key /\ last.isToday)


(***************************************************************************)
(* The id arrays of a day: logs[d], marks[d].skip, marks[d].fail and       *)
(* routineStepLogs[d][h], under the reducer cases that write them.         *)
(***************************************************************************)

NextArrays ==
  \/ ToggleHabitToday
  \/ SkipHabitToday
  \/ FailHabitToday
  \/ ClearDay
  \/ ToggleRoutineStep
  \/ DeleteHabit

SpecArrays == Init /\ [][NextArrays]_vars

\* No value occurs twice in the array.
NoDuplicates(arr) ==
  \A i, j \in 1..Len(arr) : arr[i] = arr[j] => i = j

\* C27: after any sequence of TOGGLE_HABIT, SKIP_HABIT, FAIL_HABIT, CLEAR_DAY,
\* TOGGLE_ROUTINE_STEP and DELETE_HABIT from the default snapshot, no habit id
\* occurs twice in logs[d], marks[d].skip or marks[d].fail, and no step id
\* occurs twice in routineStepLogs[d][h].
C27_NoDuplicateIds ==
  /\ \A d \in DOMAIN state.logs : NoDuplicates(state.logs[d])
  /\ \A d \in DOMAIN state.marks :
       NoDuplicates(state.marks[d].skip) /\ NoDuplicates(state.marks[d].fail)
  /\ \A d \in DOMAIN state.routineStepLogs :
       \A h \in DOMAIN state.routineStepLogs[d] :
         NoDuplicates(state.routineStepLogs[d][h])

\* Two habits are skipped today, the second just now, and both steps of a
\* routine are logged.
C27_Witness ==
  /\ last.type = "SKIP_HABIT"
  /\ Today \in DOMAIN state.marks
  /\ Len(state.marks[Today].skip) = 2
  /\ Today \in DOMAIN state.routineStepLogs
  /\ \E h \in DOMAIN state.routineStepLogs[Today] :
       Len(state.routineStepLogs[Today][h]) = 2


(***************************************************************************)
(* Taps handled against the same render.  handleToggle and                 *)
(* handleToggleRoutineStep read state from the closure of the render that  *)
(* created them; a second tap that is handled before the screen is         *)
(* rendered again computes its dispatches from the same state as the       *)
(* first, and the reducer applies all the dispatches in order.             *)
(***************************************************************************)

\* The taps the Today screen offers when rendered with s.
Taps(s) ==
  {[handler |-> "handleToggle", habitId |-> h, stepId |-> ""] :
     h \in HabitIdsOf(s)}
  \cup
  {[handler |-> "handleToggleRoutineStep", habitId |-> h, stepId |-> st] :
     h \in {x \in HabitIdsOf(s) : FindHabit(s, x).isRoutine}, st \in StepIds}

\* The dispatches of the handler of tap, computed from the rendered state s.
TapDispatches(s, tap) ==
  IF tap.handler = "handleToggle"
  THEN HandleToggleDispatches(s, tap.habitId)
  ELSE HandleToggleRoutineStepDispatches(s, tap.habitId, tap.stepId)

\* Every routine is completed today exactly when all its steps are logged.
RoutinesConsistent(s) ==
  \A h \in RoutineIds(s) :
    IsDone(s, h, Today) <=> StepSet(s, h, Today) = FullStepSet(s, h)

\* Two taps whose handlers both run with the state of the current render.
StaleTaps ==
  \E t1 \in Taps(state), t2 \in Taps(state) :
    /\ Ready
    /\ Enqueue([type |-> "staleTaps", first |-> t1, second |-> t2,
                consistent |-> RoutinesConsistent(state)],
               TapDispatches(state, t1) \o TapDispatches(state, t2))

NextTaps ==
  \/ AddHabitFixed
  \/ HandleToggle
  \/ HandleToggleRoutineStep
  \/ StaleTaps
  \/ Flush

SpecTaps == Init /\ [][NextTaps]_vars

\* C29: when two taps of the Today screen are handled against the same
\* rendered state, in which every routine is consistent, then after their
\* dispatches have been applied in order every routine is completed today
\* exactly when all its steps are logged.
C29_StaleTapsConsistent ==
  (last.type = "staleTaps" /\ last.consistent /\ queue = <<>>)
    => RoutinesConsistent(state)


(***************************************************************************)
(* Start-up of AppProvider with a snapshot in storage.  useReducer starts  *)
(* with defaultState.  After the first render the two effects run in       *)
(* order: loadState calls getItem, saveState calls setItem with the        *)
(* current state.  Both calls complete later, in either order; the save    *)
(* effect runs again after every change of state.                          *)
(***************************************************************************)

\* The setItem calls that may be in flight at once.
MaxPendingWrites == 2

\* Snapshots an earlier session saved: one habit, and its status of today.
SavedSnapshots ==
  LET added == appReducer(defaultState, AddHabitAction(PlainHabit, "h1"))
  IN {added,
      appReducer(added, ToggleHabitAction("h1", Today)),
      appReducer(added, SkipHabitAction("h1", Today)),
      appReducer(added, FailHabitAction("h1", Today))}

InitStartup ==
  /\ state = defaultState
  /\ queue = <<>>
  /\ crashed = FALSE
  /\ last = [type |-> "INIT"]
  /\ \E s \in SavedSnapshots : storage = Item(Stringify(s))
  /\ io = [load |-> "unmounted", value |-> NoItem, writes |-> <<>>]

\* saveState: setItem(STORAGE_KEY, JSON.stringify(s)) is called.
SaveEffect(pending, s) == Append(pending, Stringify(s))

\* loadState fills the fields a stored snapshot of an older version lacks.
Backfill(parsed) ==
  [parsed EXCEPT
     !.missing = @ \ {"notes", "dayPlanSchedules", "hasCompletedOnboarding",
                      "petSpecies", "petHat"},
     !.hasCompletedOnboarding =
        IF Undef(parsed, "hasCompletedOnboarding")
        THEN ~Undef(parsed, "habits") /\ Len(parsed.habits) > 0
        ELSE @]

\* The effects of the first render: loadState calls getItem and saveState
\* calls setItem with the state of that render.
MountEffects ==
  /\ io.load = "unmounted"
  /\ io' = [io EXCEPT !.load = "reading",
                      !.writes = SaveEffect(@, state)]
  /\ last' = [type |-> "mount"]
  /\ UNCHANGED <<state, queue, crashed, storage>>

\* getItem resolves with the item storage holds at that moment.
GetItemResolves ==
  /\ io.load = "reading"
  /\ io' = [io EXCEPT !.load = "read", !.value = storage]
  /\ last' = [type |-> "getItem"]
  /\ UNCHANGED <<state, queue, crashed, storage>>

\* getItem rejects, or JSON.parse throws: the catch logs the error.
LoadFails ==
  /\ io.load = "reading"
  /\ io' = [io EXCEPT !.load = "failed"]
  /\ last' = [type |-> "loadFailed"]
  /\ UNCHANGED <<state, queue, crashed, storage>>

\* The oldest setItem in flight completes.
SetItemResolves ==
  /\ io.writes # <<>>
  /\ storage' = Item(Head(io.writes))
  /\ io' = [io EXCEPT !.writes = Tail(@)]
  /\ last' = [type |-> "setItem"]
  /\ UNCHANGED <<state, queue, crashed>>

\* loadState continues after the await: a saved item is parsed, backfilled
\* and dispatched as LOAD_STATE; the change of state runs the save effect.
LoadDispatch ==
  /\ io.load = "read"
  /\ Len(io.writes) < MaxPendingWrites
  /\ ~crashed
  /\ IF io.value.exists
     THEN LET a == LoadState(Backfill(AsSnapshot(io.value.json)))
          IN /\ Reduce(a)
             /\ last' = a
             /\ io' = [io EXCEPT !.load = "done",
                                 !.writes = SaveEffect(@, state')]
     ELSE /\ io' = [io EXCEPT !.load = "done"]
          /\ last' = [type |-> "nothingSaved"]
          /\ UNCHANGED <<state, crashed>>
  /\ UNCHANGED <<queue, storage>>

\* The user taps a habit card of the week view while writes may still be in
\* flight; the change of state runs the save effect.
TapDuringStartup ==
  \E h \in HabitIdsOf(state), d \in Days :
    /\ io.load # "unmounted"
    /\ Ready
    /\ Len(io.writes) < MaxPendingWrites
    /\ Reduce(ToggleHabitAction(h, d))
    /\ last' = ToggleHabitAction(h, d)
    /\ io' = [io EXCEPT !.writes = SaveEffect(@, state')]
    /\ UNCHANGED <<queue, storage>>

NextStartup ==
  \/ MountEffects
  \/ GetItemResolves
  \/ LoadFails
  \/ SetItemResolves
  \/ LoadDispatch
  \/ TapDuringStartup

SpecStartup == InitStartup /\ [][NextStartup]_vars

\* C30: when a saved snapshot exists at start-up, storage is never
\* overwritten by the default state: every saved snapshot holds a habit and
\* the default state holds none, so the stored snapshot always holds one.
C30_StoredSnapshotKept ==
  storage.exists /\ storage.json.habits # <<>>

====
